---- MODULE Spec2Model ----
(***************************************************************************)
(* Model of src/main.rs: the render context (State::new, resize, input,    *)
(* update, render) and the closure that run() hands to the winit event     *)
(* loop.  The windowing and graphics libraries are the environment: the    *)
(* window reports an initial size, the loop delivers events, and           *)
(* Surface::get_current_texture returns Ok or one of the SurfaceError      *)
(* variants.  Every call a handler makes is appended to a call log, so     *)
(* that the order and number of calls can be checked.                      *)
(***************************************************************************)
EXTENDS Integers, Sequences, FiniteSets, TLC

\* Largest window dimension the environment reports (u32 in the code).
MaxDim == 2
\* Number of events the loop may still deliver after exit was requested.
MaxResidual == 3

Dim == 0..MaxDim

\* winit::dpi::PhysicalSize<u32>
PhysicalSize == [width : Dim, height : Dim]

\* wgpu::SurfaceError
SurfaceError == {"Timeout", "Outdated", "Lost", "OutOfMemory"}

\* What Surface::get_current_texture can return.
AcquireOutcome == {"Ok"} \cup SurfaceError

\* Surface::get_capabilities: the formats and alpha modes, in the order
\* the adapter reports them.
SurfaceCapabilities ==
    { [formats |-> <<"Bgra8UnormSrgb", "Rgba8UnormSrgb">>, alpha_modes |-> <<"Opaque">>],
      [formats |-> <<"Rgba8UnormSrgb">>, alpha_modes |-> <<"PreMultiplied", "Opaque">>] }

\* The events the loop hands to the closure, as records of one shape:
\* width/height carry the size of Resized and ScaleFactorChanged,
\* state/key the fields of KeyboardInput.
Ev(kind, w, h, st, key) ==
    [kind |-> kind, width |-> w, height |-> h, state |-> st, key |-> key]

PlainEv(kind) == Ev(kind, 0, 0, "None", "None")

WindowEvent ==
    { Ev(k, w, h, "None", "None") : k \in {"Resized", "ScaleFactorChanged"}, w \in Dim, h \in Dim }
    \cup { Ev("KeyboardInput", 0, 0, st, key) :
             st \in {"Pressed", "Released"}, key \in {"Escape", "A", "None"} }
    \cup { PlainEv("CloseRequested"), PlainEv("Focused") }

VARIABLES
    size,              \* State.size
    config,            \* State.config
    surface,           \* the configuration State.surface was last configured with
    control_flow,      \* *control_flow of the event loop
    redraw_requested,  \* window.request_redraw() is pending
    residual,          \* events delivered since exit was requested
    stopped,           \* the event loop has returned
    exit_code,         \* the code the loop returned with
    event_size,        \* size of the latest non-zero resize event (0,0: none yet)
    oom_returned,      \* some render() has returned OutOfMemory
    last               \* the latest closure invocation: event, calls, result

vars == <<size, config, surface, control_flow, redraw_requested, residual,
          stopped, exit_code, event_size, oom_returned, last>>

Poll == [kind |-> "Poll", code |-> 0]
ExitWithCode(c) == [kind |-> "ExitWithCode", code |-> c]

Call(op, a, b) == <<op, a, b>>

----------------------------------------------------------------------------
\* The context: the fields of State the operations read and write.

Ctx == [size |-> size, config |-> config, surface |-> surface]

\* surface.configure(&device, &config)
Configure(ctx) == [ctx EXCEPT !.surface = ctx.config]

\* State::new, from the window's inner size and the surface capabilities.
New(inner_size, caps) ==
    LET cfg == [usage        |-> "RENDER_ATTACHMENT",
                format       |-> caps.formats[1],
                width        |-> inner_size.width,
                height       |-> inner_size.height,
                present_mode |-> "Fifo",
                alpha_mode   |-> caps.alpha_modes[1]]
    IN  Configure([size |-> inner_size, config |-> cfg, surface |-> cfg])

\* State::resize with the guard written with || instead of &&.
ResizeEitherNonZero(ctx, new_size) ==
    IF new_size.width > 0 \/ new_size.height > 0
    THEN LET c1 == [ctx EXCEPT !.size = new_size,
                               !.config.width = new_size.width,
                               !.config.height = new_size.height]
         IN  [ctx   |-> Configure(c1),
              calls |-> << Call("resize", new_size.width, new_size.height),
                           Call("configure", new_size.width, new_size.height) >>]
    ELSE [ctx   |-> ctx,
          calls |-> << Call("resize", new_size.width, new_size.height) >>]

\* State::resize copying the dimensions from self.size before updating it.
ResizeFromOldSize(ctx, new_size) ==
    IF new_size.width > 0 /\ new_size.height > 0
    THEN LET c1 == [ctx EXCEPT !.size = new_size,
                               !.config.width = ctx.size.width,
                               !.config.height = ctx.size.height]
         IN  [ctx   |-> Configure(c1),
              calls |-> << Call("resize", new_size.width, new_size.height),
                           Call("configure", ctx.size.width, ctx.size.height) >>]
    ELSE [ctx   |-> ctx,
          calls |-> << Call("resize", new_size.width, new_size.height) >>]

\* State::resize
Resize(ctx, new_size) ==
    IF new_size.width > 0 /\ new_size.height > 0
    THEN LET c1 == [ctx EXCEPT !.size = new_size,
                               !.config.width = new_size.width,
                               !.config.height = new_size.height]
         IN  [ctx   |-> Configure(c1),
              calls |-> << Call("resize", new_size.width, new_size.height),
                           Call("configure", new_size.width, new_size.height) >>]
    ELSE [ctx   |-> ctx,
          calls |-> << Call("resize", new_size.width, new_size.height) >>]

\* State::input reporting the close request as handled.
InputHandlesClose(ctx, event) == event.kind = "CloseRequested"

\* State::input
Input(ctx, event) == FALSE

\* State::update
Update(ctx) == ctx

\* The calls of a render() whose acquisition succeeded, in program order.
FrameCalls ==
    << Call("create_view", 0, 0),
       Call("create_command_encoder", 0, 0),
       Call("begin_render_pass", 0, 0),
       Call("set_pipeline", 0, 0),
       Call("draw", 3, 1),
       Call("drop_render_pass", 0, 0),
       Call("finish", 0, 0),
       Call("submit", 1, 0),
       Call("present", 0, 0) >>

\* State::render presenting the texture before the commands are submitted.
RenderPresentsFirst(ctx, acquired) ==
    LET acquire == << Call("render", 0, 0),
                      Call("get_current_texture", ctx.surface.width, ctx.surface.height) >>
    IN  IF acquired = "Ok"
        THEN [ctx |-> ctx, result |-> "Ok",
              calls |-> acquire \o SubSeq(FrameCalls, 1, 7)
                        \o << Call("present", 0, 0), Call("submit", 1, 0) >>]
        ELSE [ctx |-> ctx, result |-> acquired, calls |-> acquire]

\* State::render; acquired is what get_current_texture returns.
Render(ctx, acquired) ==
    LET acquire == << Call("render", 0, 0),
                      Call("get_current_texture", ctx.surface.width, ctx.surface.height) >>
    IN  IF acquired = "Ok"
        THEN [ctx |-> ctx, result |-> "Ok", calls |-> acquire \o FrameCalls]
        ELSE [ctx |-> ctx, result |-> acquired, calls |-> acquire]

----------------------------------------------------------------------------
\* The arms of the closure.  Each returns the context, the control flow,
\* the calls made, the result of render() and what was written to stderr.

Outcome(ctx, cf, calls, result, stderr) ==
    [ctx |-> ctx, control_flow |-> cf, calls |-> calls, result |-> result, stderr |-> stderr]

\* Event::RedrawRequested retrying render() once the lost surface is
\* reconfigured (the retry acquires a texture).
RedrawRetriesAfterLost(ctx, cf, acquired) ==
    LET r == Render(Update(ctx), acquired)
    IN  CASE r.result = "Ok" ->
                Outcome(r.ctx, cf, r.calls, r.result, <<>>)
          [] r.result = "Lost" ->
                LET z == Resize(r.ctx, r.ctx.size)
                    again == Render(z.ctx, "Ok")
                IN  Outcome(again.ctx, cf, r.calls \o z.calls \o again.calls, r.result, <<>>)
          [] r.result = "OutOfMemory" ->
                Outcome(r.ctx, ExitWithCode(0), r.calls, r.result, <<>>)
          [] OTHER ->
                Outcome(r.ctx, cf, r.calls, r.result, << r.result >>)

\* Event::RedrawRequested with Outdated matched by the Lost arm.
RedrawOutdatedAsLost(ctx, cf, acquired) ==
    LET r == Render(Update(ctx), acquired)
    IN  CASE r.result = "Ok" ->
                Outcome(r.ctx, cf, r.calls, r.result, <<>>)
          [] r.result \in {"Lost", "Outdated"} ->
                LET z == Resize(r.ctx, r.ctx.size)
                IN  Outcome(z.ctx, cf, r.calls \o z.calls, r.result, <<>>)
          [] r.result = "OutOfMemory" ->
                Outcome(r.ctx, ExitWithCode(0), r.calls, r.result, <<>>)
          [] OTHER ->
                Outcome(r.ctx, cf, r.calls, r.result, << r.result >>)

\* Event::RedrawRequested
RedrawRequestedArm(ctx, cf, acquired) ==
    LET r == Render(Update(ctx), acquired)
    IN  CASE r.result = "Ok" ->
                Outcome(r.ctx, cf, r.calls, r.result, <<>>)
          [] r.result = "Lost" ->
                LET z == Resize(r.ctx, r.ctx.size)
                IN  Outcome(z.ctx, cf, r.calls \o z.calls, r.result, <<>>)
          [] r.result = "OutOfMemory" ->
                Outcome(r.ctx, ExitWithCode(0), r.calls, r.result, <<>>)
          [] OTHER ->
                Outcome(r.ctx, cf, r.calls, r.result, << r.result >>)

\* Event::WindowEvent without the ScaleFactorChanged arm.
WindowEventNoScaleFactor(ctx, cf, event) ==
    IF Input(ctx, event)
    THEN Outcome(ctx, cf, <<>>, "None", <<>>)
    ELSE CASE event.kind = "Resized" ->
                LET z == Resize(ctx, [width |-> event.width, height |-> event.height])
                IN  Outcome(z.ctx, cf, z.calls, "None", <<>>)
           [] event.kind = "CloseRequested"
              \/ (event.kind = "KeyboardInput" /\ event.state = "Released"
                  /\ event.key = "Escape") ->
                Outcome(ctx, ExitWithCode(0), <<>>, "None", <<>>)
           [] OTHER ->
                Outcome(ctx, cf, <<>>, "None", <<>>)

\* Event::WindowEvent
WindowEventArm(ctx, cf, event) ==
    IF Input(ctx, event)
    THEN Outcome(ctx, cf, <<>>, "None", <<>>)
    ELSE CASE event.kind \in {"Resized", "ScaleFactorChanged"} ->
                LET z == Resize(ctx, [width |-> event.width, height |-> event.height])
                IN  Outcome(z.ctx, cf, z.calls, "None", <<>>)
           [] event.kind = "CloseRequested"
              \/ (event.kind = "KeyboardInput" /\ event.state = "Released"
                  /\ event.key = "Escape") ->
                Outcome(ctx, ExitWithCode(0), <<>>, "None", <<>>)
           [] OTHER ->
                Outcome(ctx, cf, <<>>, "None", <<>>)

----------------------------------------------------------------------------
\* The event loop.

ResizeCalls(calls) == SelectSeq(calls, LAMBDA c : c[1] = "resize")

\* The handler's resize call repeats the resize call of the handler before it.
Repeats(calls) ==
    /\ ResizeCalls(calls) # <<>>
    /\ ResizeCalls(calls) = ResizeCalls(last.calls)

Record(event, o) ==
    [event |-> event, result |-> o.result, calls |-> o.calls, stderr |-> o.stderr,
     repeat |-> Repeats(o.calls)]

NoCalls(event) ==
    [event |-> event, result |-> "None", calls |-> <<>>, stderr |-> <<>>, repeat |-> FALSE]

\* The loop still calls the closure: it runs, or exit was requested and the
\* events of the current iteration are still being dispatched.
Delivers ==
    /\ ~stopped
    /\ control_flow.kind = "Poll" \/ residual < MaxResidual

Delivered ==
    /\ residual' = IF control_flow.kind = "Poll" THEN residual ELSE residual + 1
    /\ UNCHANGED <<stopped, exit_code>>

Apply(o) ==
    /\ size' = o.ctx.size
    /\ config' = o.ctx.config
    /\ surface' = o.ctx.surface
    /\ control_flow' = o.control_flow

Init ==
    /\ \E inner_size \in PhysicalSize, caps \in SurfaceCapabilities :
          LET s == New(inner_size, caps)
          IN  /\ size = s.size
              /\ config = s.config
              /\ surface = s.surface
    /\ control_flow = Poll
    /\ redraw_requested = FALSE
    /\ residual = 0
    /\ stopped = FALSE
    /\ exit_code = 0
    /\ event_size = [width |-> 0, height |-> 0]
    /\ oom_returned = FALSE
    /\ last = NoCalls(PlainEv("Init"))

MainEventsCleared ==
    /\ Delivers
    /\ Delivered
    /\ redraw_requested' = TRUE
    /\ last' = NoCalls(PlainEv("MainEventsCleared"))
    /\ UNCHANGED <<size, config, surface, control_flow, event_size, oom_returned>>

RedrawRequested ==
    /\ Delivers
    /\ Delivered
    /\ \E acquired \in AcquireOutcome :
          LET o == RedrawRequestedArm(Ctx, control_flow, acquired)
          IN  /\ Apply(o)
              /\ last' = Record(PlainEv("RedrawRequested"), o)
              /\ oom_returned' = (oom_returned \/ o.result = "OutOfMemory")
    /\ redraw_requested' = FALSE
    /\ UNCHANGED event_size

WindowEventDelivered ==
    /\ Delivers
    /\ Delivered
    /\ \E event \in WindowEvent :
          LET o == WindowEventArm(Ctx, control_flow, event)
          IN  /\ Apply(o)
              /\ last' = Record(event, o)
              /\ event_size' =
                    IF /\ event.kind \in {"Resized", "ScaleFactorChanged"}
                       /\ event.width > 0 /\ event.height > 0
                    THEN [width |-> event.width, height |-> event.height]
                    ELSE event_size
    /\ UNCHANGED <<redraw_requested, oom_returned>>

\* Any other event (NewEvents, RedrawEventsCleared, ...): the `_ => {}` arm.
OtherEvent ==
    /\ Delivers
    /\ Delivered
    /\ last' = NoCalls(PlainEv("RedrawEventsCleared"))
    /\ UNCHANGED <<size, config, surface, control_flow, redraw_requested,
                   event_size, oom_returned>>

\* The loop sees ExitWithCode, delivers LoopDestroyed and returns.
LoopDestroyed ==
    /\ ~stopped
    /\ control_flow.kind = "ExitWithCode"
    /\ stopped' = TRUE
    /\ exit_code' = control_flow.code
    /\ last' = NoCalls(PlainEv("LoopDestroyed"))
    /\ UNCHANGED <<size, config, surface, control_flow, redraw_requested,
                   residual, event_size, oom_returned>>

Next ==
    \/ MainEventsCleared
    \/ RedrawRequested
    \/ WindowEventDelivered
    \/ OtherEvent
    \/ LoopDestroyed

Spec == Init /\ [][Next]_vars

----------------------------------------------------------------------------
\* Helpers for the properties.

HasCall(calls, op) == \E i \in DOMAIN calls : calls[i][1] = op

Count(calls, op) == Len(SelectSeq(calls, LAMBDA c : c[1] = op))

Idx(calls, op) == CHOOSE i \in DOMAIN calls : calls[i][1] = op

NonZero(w, h) == w > 0 /\ h > 0

IsRedraw(l) == l.event.kind = "RedrawRequested"

EscapeReleased(e) ==
    e.kind = "KeyboardInput" /\ e.state = "Released" /\ e.key = "Escape"

\* The calls of a render() that acquired a texture: one pass with one draw
\* of 3 vertices and 1 instance, ended before the one submit, which comes
\* before the one present.
FrameInOrder(calls) ==
    /\ \A op \in {"get_current_texture", "begin_render_pass", "draw",
                  "drop_render_pass", "submit", "present"} : Count(calls, op) = 1
    /\ calls[Idx(calls, "draw")] = Call("draw", 3, 1)
    /\ Idx(calls, "get_current_texture") < Idx(calls, "begin_render_pass")
    /\ Idx(calls, "begin_render_pass") < Idx(calls, "draw")
    /\ Idx(calls, "draw") < Idx(calls, "drop_render_pass")
    /\ Idx(calls, "drop_render_pass") < Idx(calls, "submit")
    /\ Idx(calls, "submit") < Idx(calls, "present")

\* The calls of a render() whose acquisition failed.
NoFrame(calls) ==
    /\ Count(calls, "get_current_texture") = 1
    /\ \A op \in {"begin_render_pass", "draw", "drop_render_pass", "submit", "present"} :
          ~HasCall(calls, op)

----------------------------------------------------------------------------
\* C1: in every reachable state, from construction onward, the surface
\* configuration's width and height equal the stored size and both are
\* positive, whatever initial size the window reports.
C1_ConfigIsPositiveSize ==
    /\ config.width = size.width
    /\ config.height = size.height
    /\ size.width > 0
    /\ size.height > 0

\* C2: a resize call with w > 0 and h > 0 leaves the stored size and the
\* configuration dimensions equal to (w, h) and configures the surface once
\* with them; a resize call with w = 0 or h = 0 leaves size, configuration
\* and surface unchanged and does not configure the surface.
C2_Resize ==
    [][ \A i \in DOMAIN last'.calls :
          last'.calls[i][1] = "resize" =>
            LET w == last'.calls[i][2]
                h == last'.calls[i][3]
            IN  IF NonZero(w, h)
                THEN /\ size' = [width |-> w, height |-> h]
                     /\ config' = [config EXCEPT !.width = w, !.height = h]
                     /\ surface' = config'
                     /\ Count(last'.calls, "configure") = 1
                     /\ last'.calls[i + 1] = Call("configure", w, h)
                ELSE /\ size' = size
                     /\ config' = config
                     /\ surface' = surface
                     /\ Count(last'.calls, "configure") = 0 ]_vars

C2_Witness ==
    /\ last.event.kind = "Resized"
    /\ last.event.width = 1 /\ last.event.height = 2
    /\ last.calls = << Call("resize", 1, 2), Call("configure", 1, 2) >>
    /\ size = [width |-> 1, height |-> 2]
    /\ config.width = 1 /\ config.height = 2

\* C3: from any reachable state and for any non-zero size, resize called
\* twice in a row with that size leaves the same stored size and the same
\* configuration (and configured surface) as resize called once.
C3_ResizeIdempotent ==
    \A s \in PhysicalSize :
        NonZero(s.width, s.height) =>
            LET once  == Resize(Ctx, s).ctx
                twice == Resize(once, s).ctx
            IN  /\ twice.size = once.size
                /\ twice.config = once.config
                /\ twice.surface = once.surface

C3_Witness ==
    /\ last.repeat
    /\ last.event.kind = "Resized"
    /\ NonZero(last.event.width, last.event.height)
    /\ size = [width |-> last.event.width, height |-> last.event.height]
    /\ config.width = size.width /\ config.height = size.height

\* C4: a redraw whose render() returns Lost calls render once and then
\* resize exactly once, with the size stored when the frame began; nothing
\* is rendered again in that frame.
C4_LostResizesOnce ==
    [][ (IsRedraw(last') /\ last'.result = "Lost") =>
          /\ Count(last'.calls, "render") = 1
          /\ Count(last'.calls, "get_current_texture") = 1
          /\ ResizeCalls(last'.calls) = << Call("resize", size.width, size.height) >>
          /\ Idx(last'.calls, "get_current_texture") < Idx(last'.calls, "resize") ]_vars

C4_Witness ==
    /\ IsRedraw(last)
    /\ last.result = "Lost"
    /\ ResizeCalls(last.calls) = << Call("resize", size.width, size.height) >>
    /\ NonZero(size.width, size.height)

\* C5: a render() that returns OutOfMemory sets the control flow to
\* ExitWithCode(0), and once some render() has returned OutOfMemory no event
\* delivered afterwards makes the closure call render again.
C5_NoRenderAfterOutOfMemory ==
    [][ /\ last'.result = "OutOfMemory" => control_flow' = ExitWithCode(0)
        /\ oom_returned => ~HasCall(last'.calls, "render") ]_vars

\* C6: a redraw whose render() returns Outdated or Timeout prints the error,
\* leaves size, configuration, surface and control flow as they were and
\* calls neither resize nor configure; every redraw request calls render.
C6_TransientError ==
    [][ /\ IsRedraw(last') => Count(last'.calls, "render") = 1
        /\ (IsRedraw(last') /\ last'.result \in {"Outdated", "Timeout"}) =>
              /\ last'.stderr = << last'.result >>
              /\ size' = size
              /\ config' = config
              /\ surface' = surface
              /\ control_flow' = control_flow
              /\ ~HasCall(last'.calls, "resize")
              /\ ~HasCall(last'.calls, "configure") ]_vars

C6_Witness ==
    /\ IsRedraw(last)
    /\ last.result = "Timeout"
    /\ last.stderr = << "Timeout" >>
    /\ control_flow = Poll

\* C7: once a Resized or ScaleFactorChanged event with a non-zero size has
\* been delivered, the surface is configured with the size of the latest
\* such event, and the get_current_texture of every later redraw sees that
\* size; a render that acquired a frame is not interleaved with a resize.
C7_RenderSeesLatestResize ==
    /\ NonZero(event_size.width, event_size.height) =>
          /\ surface.width = event_size.width
          /\ surface.height = event_size.height
          /\ IsRedraw(last) =>
                last.calls[2] = Call("get_current_texture", event_size.width, event_size.height)
    /\ (IsRedraw(last) /\ last.result = "Ok") =>
          ~HasCall(last.calls, "resize") /\ ~HasCall(last.calls, "configure")

C7_Witness ==
    /\ IsRedraw(last)
    /\ event_size = [width |-> 1, height |-> 2]
    /\ last.calls[2] = Call("get_current_texture", 1, 2)

\* C8: the control flow changes only on a close request, a released Escape
\* key or an OutOfMemory render error, and then to ExitWithCode(0); a close
\* request or a released Escape always sets it (input never reports an
\* event as handled); the loop stops only with ExitWithCode(0) set and
\* returns 0.
C8_ExitPaths ==
    [][ /\ control_flow' # control_flow =>
              /\ control_flow' = ExitWithCode(0)
              /\ \/ last'.event.kind = "CloseRequested"
                 \/ EscapeReleased(last'.event)
                 \/ (IsRedraw(last') /\ last'.result = "OutOfMemory")
        /\ (last'.event.kind = "CloseRequested" \/ EscapeReleased(last'.event)) =>
              control_flow' = ExitWithCode(0)
        /\ \A e \in WindowEvent : ~Input(Ctx, e)
        /\ last'.result \in SurfaceError => control_flow'.code = 0
        /\ stopped' => (control_flow' = ExitWithCode(0) /\ exit_code' = 0) ]_vars

C8_Witness ==
    /\ stopped
    /\ exit_code = 0
    /\ control_flow = ExitWithCode(0)
    /\ ~oom_returned

\* C9: a redraw whose render() returns Lost configures the surface with the
\* stored size before the next render acquires a frame, in every reachable
\* state of the context.
C9_LostReconfigures ==
    (IsRedraw(last) /\ last.result = "Lost") =>
        /\ Count(last.calls, "configure") = 1
        /\ last.calls[Len(last.calls)] = Call("configure", size.width, size.height)

\* C10: render() acquires the texture first; when that succeeds it records
\* one pass with one draw of 3 vertices and 1 instance, ends the pass,
\* submits once and then presents once, and returns Ok; when it fails it
\* returns the error with no pass, submit or present; in both cases it
\* leaves the stored size and the configuration as they were.
C10_RenderOrder ==
    /\ \A a \in AcquireOutcome :
          LET r == Render(Ctx, a)
          IN  /\ r.result = a
              /\ r.ctx = Ctx
              /\ r.calls[1] = Call("render", 0, 0)
              /\ r.calls[2][1] = "get_current_texture"
              /\ IF a = "Ok" THEN FrameInOrder(r.calls) ELSE NoFrame(r.calls)
    /\ IsRedraw(last) =>
          IF last.result = "Ok" THEN FrameInOrder(last.calls) ELSE NoFrame(last.calls)

C10_Witness ==
    /\ IsRedraw(last)
    /\ last.result = "Ok"
    /\ FrameInOrder(last.calls)
    /\ last.calls[Len(last.calls)] = Call("present", 0, 0)

====
